---- MODULE Spec2Model ----
(***************************************************************************)
(* Model of flambe.nn.mos.MixtureOfSoftmax (construction, forward) and of  *)
(* the default flambe.model.Model.compare.                                 *)
(*                                                                         *)
(* Tensors are symbolic: a tensor is a record [shape, val] where shape is  *)
(* the sequence of dimension sizes and val maps every index tuple          *)
(* (1-based) to a term that records how the entry was computed.  One layer *)
(* object is modelled; the python attribute dictionary of the object is    *)
(* the record `layer`, so an attribute the constructor never stores is a   *)
(* field the record does not have.                                         *)
(***************************************************************************)
EXTENDS Integers, Sequences, FiniteSets, TLC

\* ---------------------------------------------------------------- bounds
MaxSize == 2      \* input_size and output_size range over 0..MaxSize
MaxK == 2         \* k ranges over 0..MaxK
MaxDim == 2       \* every dimension of an input tensor is in 1..MaxDim
MaxMetric == 1    \* metric values range over 0..MaxMetric

VARIABLES layer, args, last

vars == <<layer, args, last>>

\* the rank of the input forward documents: seq_len x batch_size x hidden_size;
\* inputs of this rank and of every lower rank are modelled
DataRank == 3

\* ------------------------------------------------------- tensor helpers
Front(s) == SubSeq(s, 1, Len(s) - 1)

MaxOf(a, b) == IF a >= b THEN a ELSE b

RECURSIVE SeqMax(_)
SeqMax(s) == IF s = <<>> THEN 0 ELSE MaxOf(Head(s), SeqMax(Tail(s)))

\* all index tuples of a tensor of shape sh (1-based indices)
IndexSet(sh) ==
    {idx \in [1..Len(sh) -> 1..SeqMax(sh)] : \A j \in 1..Len(sh) : idx[j] <= sh[j]}

NoTensor == [shape |-> <<0>>, val |-> [idx \in IndexSet(<<0>>) |-> 0]]

\* ------------------------------------------------ sub-modules of the layer
\* MLPEncoder(input_size, output_size): one learned projection.  id 0 is the
\* gate, id i >= 1 the i-th component; weights counts optimizer updates.
MLPEncoder(id, input_size, output_size) ==
    [type |-> "MLPEncoder", id |-> id, input_size |-> input_size,
     output_size |-> output_size, weights |-> 0]

\* a projection accepts a tensor whose last dimension is its input size
LinearOk(p, sh) == Len(sh) >= 1 /\ sh[Len(sh)] = p.input_size

\* p(data) for data of shape sh: entry idx depends on row Front(idx) of data
LinearShape(p, sh) == Front(sh) \o <<p.output_size>>

Linear(p, sh) ==
    LET osh == LinearShape(p, sh)
    IN [shape |-> osh,
        val |-> [idx \in IndexSet(osh) |->
                    [proj |-> p.id, row |-> Front(idx), col |-> idx[Len(idx)]]]]

\* nn.Softmax() / nn.LogSoftmax() built without dim: the dimension is chosen
\* from the rank of the argument (first for rank 0, 1, 3, second otherwise)
SoftmaxDim(rank) == IF rank \in {0, 1, 3} THEN 1 ELSE 2

Softmax(kind, t) ==
    LET d == SoftmaxDim(Len(t.shape))
    IN [shape |-> t.shape,
        val |-> [idx \in IndexSet(t.shape) |->
                    [fn |-> kind, logit |-> t.val[idx], dim |-> d, n |-> t.shape[d]]]]

Tanh(t) ==
    [shape |-> t.shape, val |-> [idx \in IndexSet(t.shape) |-> [tanh |-> t.val[idx]]]]

\* t[:, :, i]: needs at least three dimensions and i within the third one
SelectOk(sh, i) == Len(sh) >= 3 /\ i <= sh[3]

SelectShape(sh) == SubSeq(sh, 1, 2) \o SubSeq(sh, 4, Len(sh))

Select(t, i) ==
    LET osh == SelectShape(t.shape)
    IN [shape |-> osh,
        val |-> [idx \in IndexSet(osh) |->
                    t.val[SubSeq(idx, 1, 2) \o <<i>> \o SubSeq(idx, 3, Len(idx))]]]

\* a * b with broadcasting: shapes are aligned on the right, a missing or
\* size-1 dimension is stretched
Pad(sh, r) == [j \in 1..r |-> IF j <= r - Len(sh) THEN 1 ELSE sh[j - (r - Len(sh))]]

Broadcastable(sa, sb) ==
    LET r == MaxOf(Len(sa), Len(sb))
        pa == Pad(sa, r)
        pb == Pad(sb, r)
    IN \A j \in 1..r : pa[j] = pb[j] \/ pa[j] = 1 \/ pb[j] = 1

BroadcastShape(sa, sb) ==
    LET r == MaxOf(Len(sa), Len(sb))
        pa == Pad(sa, r)
        pb == Pad(sb, r)
    IN [j \in 1..r |-> IF pa[j] = 1 THEN pb[j] ELSE pa[j]]

\* the index of operand `sh` that feeds entry idx of the broadcast result
Source(sh, idx) ==
    LET off == Len(idx) - Len(sh)
    IN [j \in 1..Len(sh) |-> IF sh[j] = 1 THEN 1 ELSE idx[j + off]]

Mul(a, b) ==
    LET osh == BroadcastShape(a.shape, b.shape)
    IN [shape |-> osh,
        val |-> [idx \in IndexSet(osh) |->
                    [w |-> a.val[Source(a.shape, idx)], c |-> b.val[Source(b.shape, idx)]]]]

\* torch.cat(ts, dim=0) of a non-empty list of equally shaped tensors
Cat(ts) ==
    LET sh == ts[1].shape
        osh == <<Len(ts) * sh[1]>> \o Tail(sh)
    IN [shape |-> osh,
        val |-> [idx \in IndexSet(osh) |->
                    ts[((idx[1] - 1) \div sh[1]) + 1].val[
                        <<((idx[1] - 1) % sh[1]) + 1>> \o Tail(idx)]]]

\* t.sum(dim=0): an entry is the set of the terms added up
SumDim0(t) ==
    LET osh == Tail(t.shape)
    IN [shape |-> osh,
        val |-> [idx \in IndexSet(osh) |->
                    {t.val[<<x>> \o idx] : x \in 1..t.shape[1]}]]

\* ------------------------------------------------- MixtureOfSoftmax.__init__
\* The record is the attribute dictionary of the object after __init__.
\* _modules holds the names of the attributes registered as sub-modules: an
\* attribute whose value is a module is registered, a python list is not.
init_swapped(input_size, output_size, k, use_activation, take_log) ==
    LET base == [input_size |-> input_size,
                 output_size |-> output_size,
                 pi_w |-> MLPEncoder(0, output_size, k),
                 softmax |-> [type |-> "softmax"],
                 layers |-> [i \in 1..k |-> MLPEncoder(i, input_size, output_size)],
                 tanh |-> [type |-> "tanh"]]
    IN IF use_activation
       THEN base @@ [activation |-> [type |-> IF take_log THEN "logsoftmax" ELSE "softmax"],
                     _modules |-> {"pi_w", "softmax", "tanh", "activation"}]
       ELSE base @@ [_modules |-> {"pi_w", "softmax", "tanh"}]

init_gateOut(input_size, output_size, k, use_activation, take_log) ==
    LET base == [input_size |-> input_size,
                 output_size |-> output_size,
                 pi_w |-> MLPEncoder(0, input_size, output_size),
                 softmax |-> [type |-> "softmax"],
                 layers |-> [i \in 1..k |-> MLPEncoder(i, input_size, output_size)],
                 tanh |-> [type |-> "tanh"]]
    IN IF use_activation
       THEN base @@ [activation |-> [type |-> IF take_log THEN "logsoftmax" ELSE "softmax"],
                     _modules |-> {"pi_w", "softmax", "tanh", "activation"}]
       ELSE base @@ [_modules |-> {"pi_w", "softmax", "tanh"}]

init(input_size, output_size, k, use_activation, take_log) ==
    LET base == [input_size |-> input_size,
                 output_size |-> output_size,
                 pi_w |-> MLPEncoder(0, input_size, k),
                 softmax |-> [type |-> "softmax"],
                 layers |-> [i \in 1..k |-> MLPEncoder(i, input_size, output_size)],
                 tanh |-> [type |-> "tanh"]]
    IN IF use_activation
       THEN base @@ [activation |-> [type |-> IF take_log THEN "logsoftmax" ELSE "softmax"],
                     _modules |-> {"pi_w", "softmax", "tanh", "activation"}]
       ELSE base @@ [_modules |-> {"pi_w", "softmax", "tanh"}]

input_dim(l) == l.input_size

output_dim(l) == l.output_size

\* ids of the projections whose parameters the layer exposes to an optimizer:
\* those of the registered sub-modules that hold parameters
parameters(l) ==
    {l[name].id : name \in {n \in l._modules : l[n].type = "MLPEncoder"}}

\* -------------------------------------------------- MixtureOfSoftmax.forward
NoCall ==
    [op |-> "none", data |-> <<>>, metrics |-> <<>>, other |-> <<>>,
     error |-> "none", line |-> 0, returned |-> FALSE, value |-> FALSE,
     out |-> NoTensor, hasMixed |-> FALSE, mixed |-> NoTensor,
     nCand |-> 0, nWeights |-> 0]

Raise(sh, error, line) ==
    [NoCall EXCEPT !.op = "forward", !.data = sh, !.error = error, !.line = line]

\* the error of the i-th iteration of the comprehension of line 92, "none"
\* if it completes: w[:, :, i] is evaluated first, then W(data), then the
\* product; wsh is the shape of w (softmax keeps the shape of pi_w(data))
IterError(l, wsh, sh, i) ==
    IF ~SelectOk(wsh, i) THEN "IndexError"
    ELSE IF ~LinearOk(l.layers[i], sh) THEN "ShapeMismatch"
    ELSE IF ~Broadcastable(SelectShape(wsh), LinearShape(l.layers[i], sh))
         THEN "BroadcastError"
    ELSE "none"

RECURSIVE FirstError(_, _, _, _)
FirstError(l, wsh, sh, i) ==
    IF i > Len(l.layers) THEN "none"
    ELSE IF IterError(l, wsh, sh, i) # "none" THEN IterError(l, wsh, sh, i)
    ELSE FirstError(l, wsh, sh, i + 1)

\* the result of forward(data) on layer l for data of shape sh
forward(l, sh) ==
    IF ~LinearOk(l.pi_w, sh) THEN Raise(sh, "ShapeMismatch", 90)
    ELSE
    LET wsh == LinearShape(l.pi_w, sh)
        err == FirstError(l, wsh, sh, 1)
    IN IF err # "none" THEN Raise(sh, err, 92)
       ELSE IF Len(l.layers) = 0 THEN Raise(sh, "EmptyCat", 93)
       ELSE
       LET w == Softmax(l.softmax.type, Linear(l.pi_w, sh))
           out == [i \in 1..Len(l.layers) |->
                      Mul(Select(w, i), Tanh(Linear(l.layers[i], sh)))]
           mixed == SumDim0(Cat(out))
           done == [Raise(sh, "none", 93) EXCEPT
                       !.hasMixed = TRUE, !.mixed = mixed,
                       !.nCand = Len(out), !.nWeights = w.shape[Len(w.shape)]]
       IN IF "use_activation" \notin DOMAIN l
          THEN [done EXCEPT !.error = "AttributeError", !.line = 94]
          ELSE [done EXCEPT !.line = 97, !.returned = TRUE,
                   !.out = IF l.use_activation
                           THEN Softmax(l.activation.type, mixed)
                           ELSE mixed]

SelfCachingInput(l, sh) == [l EXCEPT !.input_size = sh[Len(sh)]]

\* the attributes of the object after forward: forward assigns none
SelfAfterForward(l, sh) == l

\* ------------------------------------------------------------ Model.compare
compare_strict(metrics, other) == metrics # other

compare(metrics, other) == TRUE

\* ------------------------------------------------------------------- inputs
Sizes == 0..MaxSize

Ks == 0..MaxK

Shapes == UNION {[1..r -> 1..MaxDim] : r \in 1..DataRank}

\* a metrics mapping: no entry, or a loss
Metrics == {<<>>} \cup {<<v>> : v \in 0..MaxMetric}

NoArgs ==
    [made |-> FALSE, input_size |-> 0, output_size |-> 0, k |-> 0,
     use_activation |-> FALSE, take_log |-> FALSE]

NoLayer == [_modules |-> {}]

\* ------------------------------------------------------------------ actions
Init ==
    /\ layer = NoLayer
    /\ args = NoArgs
    /\ last = NoCall

Construct ==
    /\ ~args.made
    /\ \E i \in Sizes, o \in Sizes, k \in Ks, a \in BOOLEAN, t \in BOOLEAN :
          /\ layer' = init(i, o, k, a, t)
          /\ args' = [made |-> TRUE, input_size |-> i, output_size |-> o, k |-> k,
                      use_activation |-> a, take_log |-> t]
    /\ last' = [NoCall EXCEPT !.op = "init"]

Forward ==
    /\ args.made
    /\ \E sh \in Shapes :
          /\ last' = forward(layer, sh)
          /\ layer' = SelfAfterForward(layer, sh)
    /\ UNCHANGED args

Compare ==
    /\ \E m \in Metrics, o \in Metrics :
          last' = [NoCall EXCEPT !.op = "compare", !.metrics = m, !.other = o,
                                 !.returned = TRUE, !.value = compare(m, o)]
    /\ UNCHANGED <<layer, args>>

Next == Construct \/ Forward \/ Compare

Spec == Init /\ [][Next]_vars

\* ------------------------------------------------------------------ claims
LastDim(sh) == sh[Len(sh)]

\* C1: for input_size, output_size, k >= 1 forward on a 2-D input
\* [batch, input_size] completes and returns a tensor [batch, output_size].
C1_ForwardReturnsShape ==
    (/\ last.op = "forward"
     /\ args.input_size >= 1 /\ args.output_size >= 1 /\ args.k >= 1
     /\ Len(last.data) = 2
     /\ last.data[2] = args.input_size)
    => (/\ last.returned
        /\ last.out.shape = <<last.data[1], args.output_size>>)

\* C2: whenever forward reaches its final stage the stage is well defined:
\* it never fails on the flag it tests, returns the mixed output unchanged
\* without use_activation, and its softmax / log-softmax otherwise.
C2_FinalStageDefined ==
    (last.op = "forward" /\ last.hasMixed)
    => (/\ last.error # "AttributeError"
        /\ last.returned
        /\ ~args.use_activation => last.out = last.mixed
        /\ args.use_activation =>
              /\ last.out.shape = last.mixed.shape
              /\ \A idx \in IndexSet(last.mixed.shape) :
                    /\ last.out.val[idx].fn =
                          (IF args.take_log THEN "logsoftmax" ELSE "softmax")
                    /\ last.out.val[idx].logit = last.mixed.val[idx])

\* C3: for an input [seq_len, batch, input_size] the combine step yields a
\* tensor [seq_len, batch, output_size] whose entry (s, b, o) is the sum over
\* the k components i of weight w[s, b, i] times candidate_i[s, b, o].
C3_CombinePerPosition ==
    (/\ last.op = "forward"
     /\ args.k >= 1
     /\ Len(last.data) = 3
     /\ last.data[3] = args.input_size)
    => (/\ last.hasMixed
        /\ last.mixed.shape = <<last.data[1], last.data[2], args.output_size>>
        /\ \A idx \in IndexSet(last.mixed.shape) :
              {<<t.w.logit.row, t.w.logit.col, t.c.tanh.proj, t.c.tanh.row, t.c.tanh.col>> :
                   t \in last.mixed.val[idx]}
              = {<<Front(idx), i, i, Front(idx), idx[3]>> : i \in 1..args.k})

\* C4: no layer object is produced for k = 0, input_size = 0 or
\* output_size = 0.
C4_InvalidConfigRejected ==
    args.made => (args.k >= 1 /\ args.input_size >= 1 /\ args.output_size >= 1)

\* C5: the default compare returns true for every pair of metrics mappings,
\* equal ones included, and never raises.
C5_CompareTrue ==
    last.op = "compare" => (last.returned /\ last.error = "none" /\ last.value = TRUE)

C5_Witness ==
    last.op = "compare" /\ last.metrics = last.other /\ last.metrics # <<>> /\ last.value

\* C6: forward on an input whose last dimension differs from the configured
\* input_size fails with a shape-mismatch error and returns no tensor.
C6_MismatchFails ==
    (last.op = "forward" /\ LastDim(last.data) # args.input_size)
    => (last.error = "ShapeMismatch" /\ ~last.returned /\ ~last.hasMixed)

C6_Witness ==
    /\ last.op = "forward"
    /\ args.k >= 1 /\ args.input_size >= 1
    /\ Len(last.data) = 3
    /\ LastDim(last.data) # args.input_size
    /\ last.error = "ShapeMismatch"

\* C7: with k = 1 the mixed output equals tanh(component_projections[0](input))
\* for every input, the single gate weight being 1.
C7_SingleComponent ==
    (/\ last.op = "forward"
     /\ args.k = 1
     /\ LastDim(last.data) = args.input_size)
    => (/\ last.hasMixed
        /\ last.mixed.shape = Front(last.data) \o <<args.output_size>>
        /\ \A idx \in IndexSet(last.mixed.shape) :
              /\ Cardinality(last.mixed.val[idx]) = 1
              /\ \A t \in last.mixed.val[idx] :
                    /\ t.w.n = 1
                    /\ t.c = Tanh(Linear(layer.layers[1], last.data)).val[idx])

\* C8: a constructed layer has k component projections, each from input_size
\* to output_size, and a gate projection of output size k; forward mixes as
\* many candidates as there are gate weights.
C8_ComponentsMatchGate ==
    args.made =>
       (/\ Len(layer.layers) = args.k
        /\ \A i \in 1..Len(layer.layers) :
              /\ layer.layers[i].input_size = args.input_size
              /\ layer.layers[i].output_size = args.output_size
        /\ layer.pi_w.input_size = args.input_size
        /\ layer.pi_w.output_size = args.k
        /\ (last.op = "forward" /\ last.hasMixed) =>
              (last.nCand = args.k /\ last.nWeights = last.nCand))

C8_Witness ==
    args.made /\ args.k = 2 /\ last.op = "forward" /\ last.hasMixed /\ last.nCand = 2

\* C9: a forward call, failing or not, leaves every attribute of the layer
\* (sizes, components, final-activation configuration, parameters) unchanged,
\* and input_dim / output_dim still return the sizes given at construction.
C9_ForwardFrame ==
    [][args.made =>
         (/\ layer' = layer
          /\ input_dim(layer') = args.input_size
          /\ output_dim(layer') = args.output_size)]_vars

C9_Witness ==
    /\ last.op = "forward"
    /\ last.hasMixed
    /\ args.k = 2
    /\ layer = init(args.input_size, args.output_size, args.k,
                    args.use_activation, args.take_log)
    /\ input_dim(layer) = args.input_size

\* C10: the parameters the layer exposes to the optimizer contain those of
\* the gate projection and of all k component projections.
C10_AllParametersExposed ==
    args.made =>
       ({layer.pi_w.id} \cup {layer.layers[i].id : i \in 1..Len(layer.layers)})
          \subseteq parameters(layer)

====
